---- MODULE Spec2Model ----
(***************************************************************************)
(* State-machine model of the news location pipeline (processing.py):      *)
(* gazetteer matching, geocoding with cache and retry, electoral boundary  *)
(* loading and point lookup, and grouping of located articles by           *)
(* coordinate key; of the source loop of scraper.py; and of the cached API *)
(* endpoint of app.py.                                                     *)
(*                                                                         *)
(* Python strings are tuples of one-character strings, Python None is the  *)
(* empty tuple, a dict is a function on its key set, a dict with insertion *)
(* order is a sequence of entries.  Coordinates are integers in units of   *)
(* 10^-6 degree.                                                           *)
(***************************************************************************)
EXTENDS Integers, Sequences, FiniteSets, TLC

VARIABLES
    GEOCODING_CACHE,                \* config.GEOCODING_CACHE: lower-cased name -> coords or None
    GEOPANDAS_AVAILABLE,            \* processing.GEOPANDAS_AVAILABLE
    boundaries_gdf,                 \* processing.boundaries_gdf
    boundaries_spatial_index,       \* processing.boundaries_spatial_index
    BOUNDARIES_LOADED_SUCCESSFULLY, \* processing.BOUNDARIES_LOADED_SUCCESSFULLY
    pc,                             \* position of the single thread of control
    frame,                          \* geocode_location: arguments of the innermost call
    run,                            \* process_and_group_articles: local variables, and the
                                    \*   history find_calls: the points passed to
                                    \*   find_constituency_for_point so far, and the
                                    \*   history geocoded: the geocode_location calls so
                                    \*   far (article index, name, value returned)
    resolution,                     \* history: the top-level geocode_location call in progress:
                                    \*   caller      "direct" or "pipeline"
                                    \*   calls       calls of geolocator.geocode so far
                                    \*   slept       seconds slept so far
                                    \*   outcome     what the last call of geolocator.geocode did
                                    \*   miss        the cache had no entry when the call began
                                    \*   first_calls calls of the preceding direct call, if that was
                                    \*               for the same name and began with a miss, else -1
    last,                           \* history: the last geocode_location call a direct caller
                                    \*          made, once it has completed
    completed,                      \* history: cache keys whose top-level call has completed
    load_ok_seen,                   \* history: some load_electoral_boundaries call returned True
    lastop,                         \* history: the last completed top-level operation and its result
    API_CACHE,                      \* app.API_CACHE: clustered_news, and last_updated as
                                    \*   None or <<seconds>>
    clock,                          \* what time.time() returns, in seconds
    request,                        \* get_news_clusters: None, or the local `now` of the
                                    \*   request that is waiting for the pipeline
    response                        \* history: the last response of get_news_clusters with
                                    \*   the line that returned it and API_CACHE as the
                                    \*   request found it; None while a request runs

vars == <<GEOCODING_CACHE, GEOPANDAS_AVAILABLE, boundaries_gdf, boundaries_spatial_index,
          BOUNDARIES_LOADED_SUCCESSFULLY, pc, frame, run, resolution, last, completed,
          load_ok_seen, lastop, API_CACHE, clock, request, response>>

None == <<>>

\* ------------------------------------------------------------------------
\* Bounds of the model
\* ------------------------------------------------------------------------
MaxArticles == 2    \* longest input list of process_and_group_articles
NumCoords == 3      \* number of distinct coordinate pairs the geocoder can return
MaxChunks == 3      \* longest text scanned on its own, in pieces (see Chunks)
MaxSources == 2     \* longest source configuration passed to scrape_news_sources
MaxTicks == 3       \* how often the clock advances

\* ------------------------------------------------------------------------
\* Strings
\* ------------------------------------------------------------------------
UpperLetters == <<"A","B","C","D","E","F","G","H","I","J","K","L","M",
                  "N","O","P","Q","R","S","T","U","V","W","X","Y","Z">>
LowerLetters == <<"a","b","c","d","e","f","g","h","i","j","k","l","m",
                  "n","o","p","q","r","s","t","u","v","w","x","y","z">>
Digits == {"0","1","2","3","4","5","6","7","8","9"}

\* str.lower on one character
LowerChar(c) ==
    IF \E i \in 1..26 : UpperLetters[i] = c
    THEN LowerLetters[CHOOSE i \in 1..26 : UpperLetters[i] = c]
    ELSE c

\* str.lower
lower(s) == [i \in 1..Len(s) |-> LowerChar(s[i])]

\* the regular expression class \w
IsWordChar(c) ==
    \/ \E i \in 1..26 : UpperLetters[i] = c \/ LowerLetters[i] = c
    \/ c \in Digits
    \/ c = "_"

\* the pattern without the lookahead (?!\w)
re_search_no_lookahead(loc, text) ==
    \E i \in 1..(Len(text) - Len(loc) + 1) :
        /\ \A j \in 1..Len(loc) : LowerChar(text[i + j - 1]) = LowerChar(loc[j])
        /\ (i = 1 \/ ~IsWordChar(text[i - 1]))

\* re.search(r'(?i)(?<!\w)' + re.escape(loc) + r'(?!\w)', text)
re_search(loc, text) ==
    \E i \in 1..(Len(text) - Len(loc) + 1) :
        /\ \A j \in 1..Len(loc) : LowerChar(text[i + j - 1]) = LowerChar(loc[j])
        /\ (i = 1 \/ ~IsWordChar(text[i - 1]))
        /\ (i + Len(loc) - 1 = Len(text) \/ ~IsWordChar(text[i + Len(loc)]))

extract_locations_from_text(text, known_locations) ==
    {loc \in known_locations : re_search(loc, text)}

\* ------------------------------------------------------------------------
\* Configuration and inputs
\* ------------------------------------------------------------------------
Tuas  == <<"T","u","a","s">>
Dover == <<"D","o","v","e","r">>

\* the entries of config.SINGAPORE_LOCATIONS the articles of the model mention
SINGAPORE_LOCATIONS == {Tuas, Dover}

\* place names a caller passes to geocode_location directly
PlaceNames == SINGAPORE_LOCATIONS \cup {<<"t","u","a","s">>, <<"T","U","A","S">>}

\* str.lower for every place name of the model, worked out once
LowerOf == [name \in PlaceNames |-> lower(name)]

\* the geocoder's results <<latitude, longitude>>: the first two format to one
\* key, the third differs from them in the latitude of the key, the fourth in
\* the longitude
Coords == {<<1304800 + 4 * (i % 3), 103831800 + 8 * (i \div 3)>> : i \in 0..(NumCoords - 1)}

\* the points find_constituency_for_point is asked about: the geocoder's
\* results, a point on an edge of Triangle, a point outside every bounding
\* box, a point inside Rectangle and outside the bounding box of Triangle,
\* a corner of Rectangle that lies inside Triangle
QueryPoints == Coords \cup {<<1304800, 103831790>>, <<1304780, 103831800>>,
                            <<1304850, 103831850>>, <<1304795, 103831795>>}

\* what one call of geolocator.geocode does
GeocoderOutcomes ==
    {[kind |-> "result", coords |-> c] : c \in Coords}
    \cup {[kind |-> k, coords |-> None] :
            k \in {"none", "timeout", "service_error", "exception"}}

\* article records handed over by the fetch step
ArticlePool ==
    { [title |-> Tuas, url |-> "u1", summary |-> <<>>, source |-> "X"],
      [title |-> Dover, url |-> "u2", summary |-> <<"t","u","a","s">>, source |-> "Y"],
      [title |-> <<"T","u","a","s","v","i","l","l","e">>, url |-> "u3",
       summary |-> <<>>, source |-> "X"],
      [title |-> Dover, url |-> "u1", summary |-> <<>>, source |-> "Y"] }

\* the pieces the texts passed to extract_locations_from_text on its own are
\* put together from: gazetteer names in two spellings, a letter, a digit,
\* the underscore, a blank and a hyphen
Chunks == {Tuas, <<"t","U","A","S">>, Dover, <<"x">>, <<"1">>, <<"_">>, <<" ">>, <<"-">>}

RECURSIVE Texts(_)
Texts(n) ==
    IF n = 0 THEN {<<>>}
    ELSE LET shorter == Texts(n - 1) IN shorter \cup {t \o c : t \in shorter, c \in Chunks}

\* records that may lack a field: a complete one, and one without each of
\* 'title', 'url', 'source', 'summary'
RecordPool ==
    { [title |-> Tuas, url |-> "u1", summary |-> <<>>, source |-> "X"],
      [url |-> "u2", summary |-> Tuas, source |-> "Y"],
      [title |-> Dover, summary |-> <<>>, source |-> "Y"],
      [title |-> Tuas, url |-> "u2", summary |-> <<>>],
      [title |-> Dover, url |-> "u3", source |-> "X"] }

RECURSIVE SeqsUpTo(_, _)
SeqsUpTo(S, n) ==
    IF n = 0 THEN {<<>>}
    ELSE LET shorter == SeqsUpTo(S, n - 1)
         IN shorter \cup {Append(s, x) : s \in {t \in shorter : Len(t) = n - 1}, x \in S}

ArticleLists == SeqsUpTo(ArticlePool, MaxArticles)
RecordLists == SeqsUpTo(RecordPool, MaxArticles)

\* ------------------------------------------------------------------------
\* Python dict helpers
\* ------------------------------------------------------------------------
DictSet(d, k, v) == [x \in (DOMAIN d) \cup {k} |-> IF x = k THEN v ELSE d[x]]

\* ------------------------------------------------------------------------
\* geocode_location
\* ------------------------------------------------------------------------
max_attempts == 3

\* cache_key = location_name.lower(), with the key taken as the caller wrote it
cache_key_as_written(location_name) == location_name

\* cache_key = location_name.lower() (line 97)
cache_key_of(location_name) == LowerOf[location_name]

\* What one activation of geocode_location yields:
\*   exit   "return" | "recurse" | "raise"
\*   value  the value returned (exit = "return")
\*   cache  GEOCODING_CACHE afterwards
\*   called whether geolocator.geocode was called
\*   slept  seconds spent in time.sleep
Yield(exit, value, cache, called, slept) ==
    [exit |-> exit, value |-> value, cache |-> cache, called |-> called, slept |-> slept]

\* the GeocoderTimedOut handler giving up without a cache entry
on_timeout_no_cache(cache, cache_key, attempt) ==
    IF attempt < max_attempts
    THEN Yield("recurse", None, cache, TRUE, 1 + attempt * 2)
    ELSE Yield("return", None, cache, TRUE, 1)

\* the GeocoderTimedOut handler retrying while attempt <= max_attempts
on_timeout_one_more(cache, cache_key, attempt) ==
    IF attempt <= max_attempts
    THEN Yield("recurse", None, cache, TRUE, 1 + attempt * 2)
    ELSE Yield("return", None, DictSet(cache, cache_key, None), TRUE, 1)

\* except GeocoderTimedOut (lines 116-123), after the sleep of line 105
on_timeout(cache, cache_key, attempt) ==
    IF attempt < max_attempts
    THEN Yield("recurse", None, cache, TRUE, 1 + attempt * 2)
    ELSE Yield("return", None, DictSet(cache, cache_key, None), TRUE, 1)

\* GeocoderServiceError handled like a timeout
on_service_error_retry(cache, cache_key, attempt) ==
    IF attempt < max_attempts
    THEN Yield("recurse", None, cache, TRUE, 1 + attempt * 2)
    ELSE Yield("return", None, DictSet(cache, cache_key, None), TRUE, 1)

\* except GeocoderServiceError (lines 124-125)
on_service_error(cache, cache_key, attempt) ==
    Yield("return", None, DictSet(cache, cache_key, None), TRUE, 1)

\* no handler for other exceptions: the exception leaves geocode_location
on_exception_unhandled(cache, cache_key, attempt) ==
    Yield("raise", None, cache, TRUE, 1)

\* except Exception (lines 126-127)
on_exception(cache, cache_key, attempt) ==
    Yield("return", None, DictSet(cache, cache_key, None), TRUE, 1)

\* geocode_location taking a cached None for a miss
geocode_location_retry_none(cache, location_name, attempt, outcome) ==
    LET cache_key == cache_key_of(location_name) IN
    IF cache_key \in DOMAIN cache /\ cache[cache_key] # None
    THEN Yield("return", cache[cache_key], cache, FALSE, 0)
    ELSE CASE outcome.kind = "result" ->
                Yield("return", outcome.coords,
                      DictSet(cache, cache_key, outcome.coords), TRUE, 1)
           [] outcome.kind = "none" ->
                Yield("return", None, DictSet(cache, cache_key, None), TRUE, 1)
           [] outcome.kind = "timeout" -> on_timeout(cache, cache_key, attempt)
           [] outcome.kind = "service_error" -> on_service_error(cache, cache_key, attempt)
           [] outcome.kind = "exception" -> on_exception(cache, cache_key, attempt)

\* One activation of geocode_location: the body from the cache check to the
\* return, the recursive call or the exception that leaves it.  `outcome` is
\* what geolocator.geocode does if it is called.
geocode_location(cache, location_name, attempt, outcome) ==
    LET cache_key == cache_key_of(location_name) IN
    IF cache_key \in DOMAIN cache
    THEN Yield("return", cache[cache_key], cache, FALSE, 0)
    ELSE CASE outcome.kind = "result" ->
                Yield("return", outcome.coords,
                      DictSet(cache, cache_key, outcome.coords), TRUE, 1)
           [] outcome.kind = "none" ->
                Yield("return", None, DictSet(cache, cache_key, None), TRUE, 1)
           [] outcome.kind = "timeout" -> on_timeout(cache, cache_key, attempt)
           [] outcome.kind = "service_error" -> on_service_error(cache, cache_key, attempt)
           [] outcome.kind = "exception" -> on_exception(cache, cache_key, attempt)

\* ------------------------------------------------------------------------
\* Geometry (shapely) and boundary layers (geopandas)
\* ------------------------------------------------------------------------
\* A polygon is the sequence of its vertices <<x, y>>, convex, counter-clockwise.
SetMin(S) == CHOOSE m \in S : \A x \in S : m <= x
SetMax(S) == CHOOSE m \in S : \A x \in S : m >= x

\* geometry.bounds: <<minx, miny, maxx, maxy>>
bounds(poly) ==
    LET xs == {poly[i][1] : i \in 1..Len(poly)}
        ys == {poly[i][2] : i \in 1..Len(poly)}
    IN <<SetMin(xs), SetMin(ys), SetMax(xs), SetMax(ys)>>

\* shapely.geometry.Point(x, y) and its bounds
Point(x, y) == <<x, y>>
point_bounds(p) == <<p[1], p[2], p[1], p[2]>>

\* two bounding boxes intersect (touching counts)
boxes_intersect(a, b) ==
    /\ a[1] <= b[3] /\ b[1] <= a[3]
    /\ a[2] <= b[4] /\ b[2] <= a[4]

\* geometry.contains(point): the point lies in the interior of the polygon
contains(poly, p) ==
    \A i \in 1..Len(poly) :
        LET a == poly[i]
            b == poly[(i % Len(poly)) + 1]
        IN (b[1] - a[1]) * (p[2] - a[2]) - (b[2] - a[2]) * (p[1] - a[1]) > 0

\* GeoDataFrame.to_crs(epsg=4326) for a layer in EPSG:3414; the projected
\* coordinates of the model are the WGS84 ones moved by a fixed offset
to_wgs84(poly) == [i \in 1..Len(poly) |-> <<poly[i][1] + 100000000, poly[i][2] + 1000000>>]
from_wgs84(poly) == [i \in 1..Len(poly) |-> <<poly[i][1] - 100000000, poly[i][2] - 1000000>>]

WestCoast == <<"W","C">>
Pioneer == <<"P","I">>
Jurong == <<"J","U">>

\* contains (103831800, 1304800); its bounding box also holds (103831800, 1304804)
Triangle == << <<103831790, 1304790>>, <<103831830, 1304790>>, <<103831790, 1304806>> >>
\* contains every point the geocoder of the model returns
Rectangle == << <<103831795, 1304795>>, <<103831900, 1304795>>,
                <<103831900, 1304900>>, <<103831795, 1304900>> >>

\* contains the geocoder's points with latitude and longitude exchanged
Transposed == << <<1304700, 103831700>>, <<1304900, 103831700>>,
                 <<1304900, 103831900>>, <<1304700, 103831900>> >>

CONSTITUENCY_COLUMN_NAME == "Name"

\* what gpd.read_file can return: columns, crs (None or <<EPSG code>>), the
\* rows, and whether a spatial index can be built (sindex raises otherwise)
Layers ==
    { [columns |-> {"Name", "geometry"}, crs |-> <<4326>>, sindex_ok |-> TRUE,
       rows |-> << [Name |-> WestCoast, geometry |-> Triangle],
                   [Name |-> Pioneer, geometry |-> Rectangle] >>],
      [columns |-> {"Name", "geometry"}, crs |-> None, sindex_ok |-> TRUE,
       rows |-> << [Name |-> WestCoast, geometry |-> Triangle] >>],
      [columns |-> {"Name", "geometry"}, crs |-> <<4326>>, sindex_ok |-> TRUE,
       rows |-> << [Name |-> Jurong, geometry |-> Transposed] >>],
      [columns |-> {"Name", "geometry"}, crs |-> <<3414>>, sindex_ok |-> TRUE,
       rows |-> << [Name |-> WestCoast, geometry |-> from_wgs84(Triangle)] >>],
      [columns |-> {"Description", "geometry"}, crs |-> <<4326>>, sindex_ok |-> TRUE,
       rows |-> << [Name |-> WestCoast, geometry |-> Triangle] >>],
      [columns |-> {"Name", "geometry"}, crs |-> <<4326>>, sindex_ok |-> FALSE,
       rows |-> << [Name |-> WestCoast, geometry |-> Triangle] >>] }

\* the boundary file as a load call finds it
FileStates ==
    {[exists |-> FALSE, readable |-> FALSE, content |-> None],
     [exists |-> TRUE, readable |-> FALSE, content |-> None]}
    \cup {[exists |-> TRUE, readable |-> TRUE, content |-> l] : l \in Layers}

\* GeoDataFrame.sindex: the bounding box of every row
build_sindex(gdf) == [i \in 1..Len(gdf.rows) |-> bounds(gdf.rows[i].geometry)]

\* lines 57-62: give the layer the CRS EPSG:4326
normalize_crs(temp_gdf) ==
    IF temp_gdf.crs = None THEN [temp_gdf EXCEPT !.crs = <<4326>>]
    ELSE IF temp_gdf.crs[1] # 4326
         THEN [temp_gdf EXCEPT !.crs = <<4326>>,
                 !.rows = [i \in 1..Len(temp_gdf.rows) |->
                             [temp_gdf.rows[i] EXCEPT !.geometry = to_wgs84(@)]]]
         ELSE temp_gdf

\* load_electoral_boundaries with the file looked for before the globals
load_checking_file_first(gdf, sindex, available, file) ==
    IF ~available
    THEN [ret |-> FALSE, gdf |-> gdf, sindex |-> sindex, read |-> FALSE]
    ELSE IF ~file.exists
    THEN [ret |-> FALSE, gdf |-> gdf, sindex |-> sindex, read |-> FALSE]
    ELSE IF gdf # None
    THEN [ret |-> TRUE, gdf |-> gdf, sindex |-> sindex, read |-> FALSE]
    ELSE IF ~file.readable
    THEN [ret |-> FALSE, gdf |-> None, sindex |-> None, read |-> TRUE]
    ELSE IF CONSTITUENCY_COLUMN_NAME \notin file.content.columns
    THEN [ret |-> FALSE, gdf |-> gdf, sindex |-> sindex, read |-> TRUE]
    ELSE IF ~file.content.sindex_ok
    THEN [ret |-> FALSE, gdf |-> None, sindex |-> None, read |-> TRUE]
    ELSE LET temp_gdf == normalize_crs(file.content)
         IN [ret |-> TRUE, gdf |-> temp_gdf, sindex |-> build_sindex(temp_gdf),
             read |-> TRUE]

\* load_electoral_boundaries, given the two globals, the import flag and the
\* state of the boundary file.  `read` tells whether gpd.read_file was called.
load_electoral_boundaries(gdf, sindex, available, file) ==
    IF ~available
    THEN [ret |-> FALSE, gdf |-> gdf, sindex |-> sindex, read |-> FALSE]
    ELSE IF gdf # None
    THEN [ret |-> TRUE, gdf |-> gdf, sindex |-> sindex, read |-> FALSE]
    ELSE IF ~file.exists
    THEN [ret |-> FALSE, gdf |-> gdf, sindex |-> sindex, read |-> FALSE]
    ELSE IF ~file.readable
    THEN [ret |-> FALSE, gdf |-> None, sindex |-> None, read |-> TRUE]
    ELSE IF CONSTITUENCY_COLUMN_NAME \notin file.content.columns
    THEN [ret |-> FALSE, gdf |-> gdf, sindex |-> sindex, read |-> TRUE]
    ELSE IF ~file.content.sindex_ok
    THEN [ret |-> FALSE, gdf |-> None, sindex |-> None, read |-> TRUE]
    ELSE LET temp_gdf == normalize_crs(file.content)
         IN [ret |-> TRUE, gdf |-> temp_gdf, sindex |-> build_sindex(temp_gdf),
             read |-> TRUE]

\* the orders in which the spatial index can report the rows of a layer
Perms(S) == {f \in [1..Cardinality(S) -> S] : \A i, j \in 1..Cardinality(S) : f[i] = f[j] => i = j}
IndexOrders(gdf) == IF gdf = None THEN {<<>>} ELSE Perms(1..Len(gdf.rows))

\* find_constituency_for_point without the test of the import-time flag
find_constituency_ignoring_flag(lat, lon, loaded, gdf, sindex, order) ==
    IF gdf = None \/ sindex = None
    THEN None
    ELSE LET point == Point(lon, lat)
             possible_matches_index ==
                 SelectSeq(order, LAMBDA i : boxes_intersect(sindex[i], point_bounds(point)))
             precise_matches ==
                 SelectSeq(possible_matches_index,
                           LAMBDA i : contains(gdf.rows[i].geometry, point))
         IN IF possible_matches_index = <<>> THEN None
            ELSE IF precise_matches # <<>>
                 THEN gdf.rows[precise_matches[1]].Name
                 ELSE None

\* find_constituency_for_point with the point built as Point(lat, lon)
find_constituency_lat_lon(lat, lon, loaded, gdf, sindex, order) ==
    IF ~loaded \/ gdf = None \/ sindex = None
    THEN None
    ELSE LET point == Point(lat, lon)
             possible_matches_index ==
                 SelectSeq(order, LAMBDA i : boxes_intersect(sindex[i], point_bounds(point)))
             precise_matches ==
                 SelectSeq(possible_matches_index,
                           LAMBDA i : contains(gdf.rows[i].geometry, point))
         IN IF possible_matches_index = <<>> THEN None
            ELSE IF precise_matches # <<>>
                 THEN gdf.rows[precise_matches[1]].Name
                 ELSE None

\* find_constituency_for_point, given the module globals and the order in
\* which the spatial index reports its entries
find_constituency_for_point(lat, lon, loaded, gdf, sindex, order) ==
    IF ~loaded \/ gdf = None \/ sindex = None
    THEN None
    ELSE LET point == Point(lon, lat)
             possible_matches_index ==
                 SelectSeq(order, LAMBDA i : boxes_intersect(sindex[i], point_bounds(point)))
             precise_matches ==
                 SelectSeq(possible_matches_index,
                           LAMBDA i : contains(gdf.rows[i].geometry, point))
         IN IF possible_matches_index = <<>> THEN None
            ELSE IF precise_matches # <<>>
                 THEN gdf.rows[precise_matches[1]].Name
                 ELSE None

\* ------------------------------------------------------------------------
\* process_and_group_articles: helpers
\* ------------------------------------------------------------------------
\* "{x:.5f}" of a non-negative coordinate: the number of 10^-5 units nearest
\* to x (no coordinate of the model lies halfway between two of them)
Fmt5(x) == (x + 5) \div 10

\* coord_key = f"{lat:.5f},{lon:.5f}"
coord_key(lat, lon) == <<Fmt5(lat), Fmt5(lon)>>

\* article[k] for every k of `keys` is there (no KeyError)
HasKeys(article, keys) == keys \subseteq DOMAIN article

\* text_to_scan = f"{article['title']} {article['summary']}"
text_to_scan(article) == article.title \o <<" ">> \o article.summary

\* the entry appended to articles_with_location (lines 190-194):
\* {**article, 'location_name': ..., 'coords': ...}
located_article(article, primary_location_name, coords) ==
    [k \in DOMAIN article \cup {"location_name", "coords"} |->
        IF k = "location_name" THEN primary_location_name
        ELSE IF k = "coords" THEN coords
        ELSE article[k]]

\* position of coord_key in the dict grouped_by_coords, 0 if it is no key
KeyIndex(grouped_by_coords, key) ==
    IF \E i \in 1..Len(grouped_by_coords) : grouped_by_coords[i].key = key
    THEN CHOOSE i \in 1..Len(grouped_by_coords) : grouped_by_coords[i].key = key
    ELSE 0

\* group_article with the dict keyed by the unrounded coordinates
group_article_raw_key(grouped_by_coords, article, loaded, gdf, sindex, order) ==
    LET lat == article.coords[1]
        lon == article.coords[2]
        key == <<lat, lon>>
        new_key == KeyIndex(grouped_by_coords, key) = 0
        constituency == find_constituency_for_point(lat, lon, loaded, gdf, sindex, order)
        with_key ==
            IF new_key
            THEN Append(grouped_by_coords,
                        [key |-> key, latitude |-> lat, longitude |-> lon,
                         location_name |-> article.location_name,
                         constituency |-> constituency,
                         articles |-> <<>>])
            ELSE grouped_by_coords
        k == KeyIndex(with_key, key)
        find_calls == IF new_key THEN << <<lat, lon>> >> ELSE <<>>
    IN IF ~HasKeys(article, {"url"})
       THEN [grouped_by_coords |-> with_key, find_calls |-> find_calls, raised |-> TRUE]
       ELSE IF \E n \in 1..Len(with_key[k].articles) : with_key[k].articles[n].url = article.url
       THEN [grouped_by_coords |-> with_key, find_calls |-> find_calls, raised |-> FALSE]
       ELSE IF ~HasKeys(article, {"title", "url", "summary", "source"})
       THEN [grouped_by_coords |-> with_key, find_calls |-> find_calls, raised |-> TRUE]
       ELSE [grouped_by_coords |->
                [with_key EXCEPT ![k].articles =
                    Append(@, [title |-> article.title, url |-> article.url,
                               summary |-> article.summary, source |-> article.source])],
             find_calls |-> find_calls, raised |-> FALSE]

\* group_article without the url check of line 220
group_article_no_url_check(grouped_by_coords, article, loaded, gdf, sindex, order) ==
    LET lat == article.coords[1]
        lon == article.coords[2]
        key == coord_key(lat, lon)
        new_key == KeyIndex(grouped_by_coords, key) = 0
        constituency == find_constituency_for_point(lat, lon, loaded, gdf, sindex, order)
        with_key ==
            IF new_key
            THEN Append(grouped_by_coords,
                        [key |-> key, latitude |-> lat, longitude |-> lon,
                         location_name |-> article.location_name,
                         constituency |-> constituency,
                         articles |-> <<>>])
            ELSE grouped_by_coords
        k == KeyIndex(with_key, key)
        find_calls == IF new_key THEN << <<lat, lon>> >> ELSE <<>>
    IN IF ~HasKeys(article, {"url"})
       THEN [grouped_by_coords |-> with_key, find_calls |-> find_calls, raised |-> TRUE]
       ELSE IF FALSE
       THEN [grouped_by_coords |-> with_key, find_calls |-> find_calls, raised |-> FALSE]
       ELSE IF ~HasKeys(article, {"title", "url", "summary", "source"})
       THEN [grouped_by_coords |-> with_key, find_calls |-> find_calls, raised |-> TRUE]
       ELSE [grouped_by_coords |->
                [with_key EXCEPT ![k].articles =
                    Append(@, [title |-> article.title, url |-> article.url,
                               summary |-> article.summary, source |-> article.source])],
             find_calls |-> find_calls, raised |-> FALSE]

\* group_article with the append of lines 220-227 inside the branch of line 208
group_article_new_cluster_only(grouped_by_coords, article, loaded, gdf, sindex, order) ==
    LET lat == article.coords[1]
        lon == article.coords[2]
        key == coord_key(lat, lon)
        new_key == KeyIndex(grouped_by_coords, key) = 0
        constituency == find_constituency_for_point(lat, lon, loaded, gdf, sindex, order)
        with_key ==
            IF new_key
            THEN Append(grouped_by_coords,
                        [key |-> key, latitude |-> lat, longitude |-> lon,
                         location_name |-> article.location_name,
                         constituency |-> constituency,
                         articles |-> <<>>])
            ELSE grouped_by_coords
        k == KeyIndex(with_key, key)
        find_calls == IF new_key THEN << <<lat, lon>> >> ELSE <<>>
    IN IF ~HasKeys(article, {"url"})
       THEN [grouped_by_coords |-> with_key, find_calls |-> find_calls, raised |-> TRUE]
       ELSE IF ~new_key
       THEN [grouped_by_coords |-> with_key, find_calls |-> find_calls, raised |-> FALSE]
       ELSE IF ~HasKeys(article, {"title", "url", "summary", "source"})
       THEN [grouped_by_coords |-> with_key, find_calls |-> find_calls, raised |-> TRUE]
       ELSE [grouped_by_coords |->
                [with_key EXCEPT ![k].articles =
                    Append(@, [title |-> article.title, url |-> article.url,
                               summary |-> article.summary, source |-> article.source])],
             find_calls |-> find_calls, raised |-> FALSE]

\* group_article looking the constituency up again for every article of a cluster
group_article_refresh_constituency(grouped_by_coords, article, loaded, gdf, sindex, order) ==
    LET lat == article.coords[1]
        lon == article.coords[2]
        key == coord_key(lat, lon)
        new_key == KeyIndex(grouped_by_coords, key) = 0
        constituency == find_constituency_for_point(lat, lon, loaded, gdf, sindex, order)
        with_key ==
            IF new_key
            THEN Append(grouped_by_coords,
                        [key |-> key, latitude |-> lat, longitude |-> lon,
                         location_name |-> article.location_name,
                         constituency |-> constituency,
                         articles |-> <<>>])
            ELSE [grouped_by_coords EXCEPT
                    ![KeyIndex(grouped_by_coords, key)].constituency = constituency]
        k == KeyIndex(with_key, key)
        find_calls == << <<lat, lon>> >>
    IN IF ~HasKeys(article, {"url"})
       THEN [grouped_by_coords |-> with_key, find_calls |-> find_calls, raised |-> TRUE]
       ELSE IF \E n \in 1..Len(with_key[k].articles) : with_key[k].articles[n].url = article.url
       THEN [grouped_by_coords |-> with_key, find_calls |-> find_calls, raised |-> FALSE]
       ELSE IF ~HasKeys(article, {"title", "url", "summary", "source"})
       THEN [grouped_by_coords |-> with_key, find_calls |-> find_calls, raised |-> TRUE]
       ELSE [grouped_by_coords |->
                [with_key EXCEPT ![k].articles =
                    Append(@, [title |-> article.title, url |-> article.url,
                               summary |-> article.summary, source |-> article.source])],
             find_calls |-> find_calls, raised |-> FALSE]

\* group_article taking the cluster's position and name from every article
group_article_last_wins(grouped_by_coords, article, loaded, gdf, sindex, order) ==
    LET lat == article.coords[1]
        lon == article.coords[2]
        key == coord_key(lat, lon)
        new_key == KeyIndex(grouped_by_coords, key) = 0
        constituency == find_constituency_for_point(lat, lon, loaded, gdf, sindex, order)
        with_key ==
            IF new_key
            THEN Append(grouped_by_coords,
                        [key |-> key, latitude |-> lat, longitude |-> lon,
                         location_name |-> article.location_name,
                         constituency |-> constituency,
                         articles |-> <<>>])
            ELSE [grouped_by_coords EXCEPT
                    ![KeyIndex(grouped_by_coords, key)].latitude = lat,
                    ![KeyIndex(grouped_by_coords, key)].longitude = lon,
                    ![KeyIndex(grouped_by_coords, key)].location_name = article.location_name]
        k == KeyIndex(with_key, key)
        find_calls == IF new_key THEN << <<lat, lon>> >> ELSE <<>>
    IN IF ~HasKeys(article, {"url"})
       THEN [grouped_by_coords |-> with_key, find_calls |-> find_calls, raised |-> TRUE]
       ELSE IF \E n \in 1..Len(with_key[k].articles) : with_key[k].articles[n].url = article.url
       THEN [grouped_by_coords |-> with_key, find_calls |-> find_calls, raised |-> FALSE]
       ELSE IF ~HasKeys(article, {"title", "url", "summary", "source"})
       THEN [grouped_by_coords |-> with_key, find_calls |-> find_calls, raised |-> TRUE]
       ELSE [grouped_by_coords |->
                [with_key EXCEPT ![k].articles =
                    Append(@, [title |-> article.title, url |-> article.url,
                               summary |-> article.summary, source |-> article.source])],
             find_calls |-> find_calls, raised |-> FALSE]

\* One pass of the grouping loop (lines 203-227) for one located article:
\* the dict afterwards, the points find_constituency_for_point was called
\* with (line 210), and whether a KeyError left the loop (article['url'] at
\* line 220 or 223, article['source'] at line 225).
group_article(grouped_by_coords, article, loaded, gdf, sindex, order) ==
    LET lat == article.coords[1]
        lon == article.coords[2]
        key == coord_key(lat, lon)
        new_key == KeyIndex(grouped_by_coords, key) = 0
        constituency == find_constituency_for_point(lat, lon, loaded, gdf, sindex, order)
        with_key ==
            IF new_key
            THEN Append(grouped_by_coords,
                        [key |-> key, latitude |-> lat, longitude |-> lon,
                         location_name |-> article.location_name,
                         constituency |-> constituency,
                         articles |-> <<>>])
            ELSE grouped_by_coords
        k == KeyIndex(with_key, key)
        find_calls == IF new_key THEN << <<lat, lon>> >> ELSE <<>>
    IN IF ~HasKeys(article, {"url"})
       THEN [grouped_by_coords |-> with_key, find_calls |-> find_calls, raised |-> TRUE]
       ELSE IF \E n \in 1..Len(with_key[k].articles) : with_key[k].articles[n].url = article.url
       THEN [grouped_by_coords |-> with_key, find_calls |-> find_calls, raised |-> FALSE]
       ELSE IF ~HasKeys(article, {"title", "url", "summary", "source"})
       THEN [grouped_by_coords |-> with_key, find_calls |-> find_calls, raised |-> TRUE]
       ELSE [grouped_by_coords |->
                [with_key EXCEPT ![k].articles =
                    Append(@, [title |-> article.title, url |-> article.url,
                               summary |-> article.summary, source |-> article.source])],
             find_calls |-> find_calls, raised |-> FALSE]

\* the output list (lines 230-239)
format_clusters(grouped_by_coords) ==
    [i \in 1..Len(grouped_by_coords) |->
        [latitude |-> grouped_by_coords[i].latitude,
         longitude |-> grouped_by_coords[i].longitude,
         location_name |-> grouped_by_coords[i].location_name,
         constituency |-> grouped_by_coords[i].constituency,
         article_count |-> Len(grouped_by_coords[i].articles),
         articles |-> grouped_by_coords[i].articles]]

\* ------------------------------------------------------------------------
\* scrape_news_sources (scraper.py)
\* ------------------------------------------------------------------------
\* An entry of the source configuration is a dict (py_type "dict", its items
\* in `items`) or some other object.  With every entry comes what the network
\* would deliver for it: whether fetch_html gets a page, and the title, url
\* and summary of the articles the parser finds in the page or feed.
rss == <<"r","s","s">>
html == <<"h","t","m","l">>

SourceEntries ==
    { [py_type |-> "str"],
      [py_type |-> "dict", items |-> [url |-> "http://a", type |-> rss]],
      [py_type |-> "dict", items |-> [name |-> "A", type |-> rss]],
      [py_type |-> "dict", items |-> [name |-> "A", url |-> "http://a", type |-> rss]],
      [py_type |-> "dict", items |-> [name |-> "B", url |-> "http://b", type |-> <<"R","S","S">>]],
      [py_type |-> "dict", items |-> [name |-> "C", url |-> "http://c", type |-> html,
                                      selectors |-> "sel"]],
      [py_type |-> "dict", items |-> [name |-> "D", url |-> "http://d", selectors |-> "sel"]],
      [py_type |-> "dict", items |-> [name |-> "E", url |-> "http://e", type |-> html]],
      [py_type |-> "dict", items |-> [name |-> "F", url |-> "http://f",
                                      type |-> <<"a","t","o","m">>, selectors |-> "sel"]] }

Deliveries ==
    { [fetched |-> TRUE, found |-> << [title |-> Tuas, url |-> "u1", summary |-> <<>>] >>],
      [fetched |-> TRUE, found |-> << [title |-> Dover, url |-> "u2", summary |-> Tuas],
                                      [title |-> Tuas, url |-> "u1", summary |-> <<>>] >>],
      [fetched |-> FALSE, found |-> << [title |-> Dover, url |-> "u2", summary |-> Tuas] >>] }

\* the configurations with the deliveries of their entries
SourceConfigs ==
    SeqsUpTo({[source |-> e, delivery |-> d] : e \in SourceEntries, d \in Deliveries},
             MaxSources)

\* the records parse_rss_feed and parse_articles_from_html build (lines 56, 115-121)
parsed_from(found, source_name) ==
    [n \in 1..Len(found) |->
        [title |-> found[n].title, url |-> found[n].url, summary |-> found[n].summary,
         source |-> source_name]]

\* source.get('type', 'html').lower() (line 146)
source_type_of(items) == IF "type" \in DOMAIN items THEN lower(items.type) ELSE html

\* one pass of the loop of line 139: "continue" when the entry is skipped at
\* line 143 or 159, else the articles that line 172 adds to all_articles
scrape_one(source, delivery) ==
    IF source.py_type # "dict" \/ "name" \notin DOMAIN source.items
                               \/ "url" \notin DOMAIN source.items
    THEN [skipped |-> TRUE, parsed_articles |-> <<>>]
    ELSE LET source_name == source.items.name
             source_type == source_type_of(source.items)
         IN IF source_type = rss
            THEN [skipped |-> FALSE, parsed_articles |-> parsed_from(delivery.found, source_name)]
            ELSE IF source_type = html
            THEN IF "selectors" \notin DOMAIN source.items
                 THEN [skipped |-> TRUE, parsed_articles |-> <<>>]
                 ELSE IF delivery.fetched
                 THEN [skipped |-> FALSE,
                       parsed_articles |-> parsed_from(delivery.found, source_name)]
                 ELSE [skipped |-> FALSE, parsed_articles |-> <<>>]
            ELSE [skipped |-> FALSE, parsed_articles |-> <<>>]

\* the loop of line 139 ended by the first entry that is skipped
RECURSIVE scrape_until_skipped(_)
scrape_until_skipped(sources_config) ==
    IF sources_config = <<>> THEN <<>>
    ELSE LET r == scrape_one(sources_config[1].source, sources_config[1].delivery)
         IN IF r.skipped THEN <<>>
            ELSE r.parsed_articles \o scrape_until_skipped(Tail(sources_config))

\* scrape_news_sources(sources_config): all_articles at line 175
RECURSIVE scrape_news_sources(_)
scrape_news_sources(sources_config) ==
    IF sources_config = <<>> THEN <<>>
    ELSE scrape_one(sources_config[1].source, sources_config[1].delivery).parsed_articles
            \o scrape_news_sources(Tail(sources_config))

\* ------------------------------------------------------------------------
\* get_news_clusters (app.py)
\* ------------------------------------------------------------------------
CACHE_TTL_SECONDS == 60 * 30

\* time.time() when the process starts, and the step in which the clock of
\* the model advances
StartTime == 1000
TickSeconds == 900

\* what the call of scrape_news_sources at line 53 hands to get_news_clusters:
\* an exception, no articles, an article with a gazetteer name, an article
\* without one, a record without 'title'
ScrapeOutcomes ==
    {[raised |-> TRUE, articles |-> <<>>]} \cup
    {[raised |-> FALSE, articles |-> l] :
        l \in { <<>>,
                << [title |-> Tuas, url |-> "u1", summary |-> <<>>, source |-> "X"] >>,
                << [title |-> <<"T","u","a","s","v","i","l","l","e">>, url |-> "u3",
                    summary |-> <<>>, source |-> "X"] >>,
                << [url |-> "u2", summary |-> Tuas, source |-> "Y"] >> }}

\* a response: status, body, the line of app.py that returned it, and
\* API_CACHE as the request found it
Reply(status, body, line, found) ==
    [status |-> status, body |-> body, line |-> line, found |-> found]

\* the cache check of line 46
cache_is_fresh(cache, now) ==
    /\ cache.clustered_news # <<>>
    /\ cache.last_updated # None
    /\ now - cache.last_updated[1] < CACHE_TTL_SECONDS

\* lines 56-60 and 89-93: the cached data if it is truthy, else an error
stale_or_error(cache, stale_line, error_line, found) ==
    IF cache.clustered_news # <<>>
    THEN Reply(200, cache.clustered_news, stale_line, found)
    ELSE Reply(500, "error", error_line, found)

\* ------------------------------------------------------------------------
\* State machine
\* ------------------------------------------------------------------------
Op(name, args, ret, read, raised) ==
    [op |-> name, args |-> args, ret |-> ret, read |-> read, raised |-> raised]

\* the state after `import app`, lines 28-31
AppInit ==
    /\ API_CACHE = [clustered_news |-> None, last_updated |-> None]
    /\ clock = StartTime
    /\ request = None
    /\ response = None

\* the state after `import processing`: empty cache, globals as the load
\* call of line 75 leaves them
Init ==
    /\ GEOCODING_CACHE = <<>>
    /\ \E available \in BOOLEAN, file \in FileStates :
          LET r == load_electoral_boundaries(None, None, available, file)
          IN /\ GEOPANDAS_AVAILABLE = available
             /\ boundaries_gdf = r.gdf
             /\ boundaries_spatial_index = r.sindex
             /\ BOUNDARIES_LOADED_SUCCESSFULLY = r.ret
             /\ load_ok_seen = r.ret
             /\ lastop = Op("import", file, r.ret, r.read, FALSE)
    /\ pc = "idle"
    /\ frame = None
    /\ run = None
    /\ resolution = None
    /\ last = None
    /\ completed = {}
    /\ AppInit

boundary_vars == <<GEOPANDAS_AVAILABLE, boundaries_gdf, boundaries_spatial_index,
                   BOUNDARIES_LOADED_SUCCESSFULLY, load_ok_seen>>
geocode_vars == <<GEOCODING_CACHE, frame, resolution, last, completed>>
app_vars == <<API_CACHE, clock, request, response>>

\* a later call of load_electoral_boundaries()
CallLoad(file) ==
    /\ pc = "idle"
    /\ LET r == load_electoral_boundaries(boundaries_gdf, boundaries_spatial_index,
                                          GEOPANDAS_AVAILABLE, file)
       IN /\ boundaries_gdf' = r.gdf
          /\ boundaries_spatial_index' = r.sindex
          /\ load_ok_seen' = (load_ok_seen \/ r.ret)
          /\ lastop' = Op("load", file, r.ret, r.read, FALSE)
    /\ UNCHANGED <<GEOPANDAS_AVAILABLE, BOUNDARIES_LOADED_SUCCESSFULLY, pc, run, geocode_vars, app_vars>>

\* a call of find_constituency_for_point(lat, lon)
CallFind(lat, lon, order) ==
    /\ pc = "idle"
    /\ lastop' = Op("find", <<lat, lon, order>>,
                    find_constituency_for_point(lat, lon, BOUNDARIES_LOADED_SUCCESSFULLY,
                        boundaries_gdf, boundaries_spatial_index, order),
                    FALSE, FALSE)
    /\ UNCHANGED <<boundary_vars, pc, run, geocode_vars, app_vars>>

\* a caller enters extract_locations_from_text(text, known_locations)
CallExtract(text, known_locations) ==
    /\ pc = "idle"
    /\ pc' = "extract"
    /\ lastop' = Op("enter extract", [text |-> text, known_locations |-> known_locations],
                    None, FALSE, FALSE)
    /\ UNCHANGED <<boundary_vars, run, geocode_vars, app_vars>>

\* extract_locations_from_text runs and returns (lines 80-87)
ExtractStep ==
    /\ pc = "extract"
    /\ pc' = "idle"
    /\ lastop' = Op("extract", lastop.args,
                    extract_locations_from_text(lastop.args.text, lastop.args.known_locations),
                    FALSE, FALSE)
    /\ UNCHANGED <<boundary_vars, run, geocode_vars, app_vars>>

\* a caller enters scrape_news_sources(sources_config)
CallScrape(sources_config) ==
    /\ pc = "idle"
    /\ pc' = "scrape"
    /\ lastop' = Op("enter scrape", sources_config, None, FALSE, FALSE)
    /\ UNCHANGED <<boundary_vars, run, geocode_vars, app_vars>>

\* scrape_news_sources runs and returns (lines 134-175)
ScrapeStep ==
    /\ pc = "scrape"
    /\ pc' = "idle"
    /\ lastop' = Op("scrape", lastop.args, scrape_news_sources(lastop.args), FALSE, FALSE)
    /\ UNCHANGED <<boundary_vars, run, geocode_vars, app_vars>>

\* a caller enters geocode_location(location_name, geolocator)
CallGeocode(location_name) ==
    /\ pc = "idle"
    /\ pc' = "geocode"
    /\ frame' = [location_name |-> location_name, attempt |-> 1]
    /\ resolution' = [caller |-> "direct", calls |-> 0, slept |-> 0, outcome |-> "hit",
                      miss |-> LowerOf[location_name] \notin DOMAIN GEOCODING_CACHE,
                      first_calls |-> IF last # None /\ last.name = location_name /\ last.miss
                                      THEN last.calls ELSE -1]
    /\ lastop' = Op("geocode", location_name, None, FALSE, FALSE)
    /\ UNCHANGED <<boundary_vars, run, GEOCODING_CACHE, last, completed, app_vars>>

\* lines 169-170 for every article of the model, worked out once
FoundLocations ==
    [article \in {a \in ArticlePool \cup RecordPool : HasKeys(a, {"title", "summary"})} |->
        extract_locations_from_text(text_to_scan(article), SINGAPORE_LOCATIONS)]

\* lines 230-239 when the grouping loop has nothing left to do
finish_grouping(r) ==
    IF r.j > Len(r.articles_with_location)
    THEN [r EXCEPT !.clusters = format_clusters(r.grouped_by_coords)]
    ELSE r

\* the loop of line 168 from article r.i on, up to the next article in which
\* a location is found (lines 169-176); after the last article, the grouping
\* loop is reached; an article without 'title' or 'summary' raises KeyError
\* at line 169
RECURSIVE scan_articles(_)
scan_articles(r) ==
    IF r.i > Len(r.articles)
    THEN finish_grouping(r)
    ELSE IF ~HasKeys(r.articles[r.i], {"title", "summary"})
    THEN [r EXCEPT !.raised = TRUE]
    ELSE LET found_locations == FoundLocations[r.articles[r.i]]
         IN IF found_locations = {}
            THEN scan_articles([r EXCEPT !.i = @ + 1])
            ELSE [r EXCEPT !.found_locations = found_locations]

\* where process_and_group_articles stands with the local variables r
pc_of(r) ==
    IF r.raised THEN "raised"
    ELSE IF r.i <= Len(r.articles) THEN "loc"
    ELSE IF r.j <= Len(r.articles_with_location) THEN "group"
    ELSE "done"

\* the loop of line 177 without the break of line 184
after_geocode_no_break(r, value) ==
    LET h == [r EXCEPT !.geocoded = Append(@, [i |-> r.i, loc |-> r.loc, value |-> value])]
    IN IF h.found_locations # {}
       THEN [h EXCEPT !.loc = None]
       ELSE IF value # None
       THEN scan_articles([h EXCEPT
                !.articles_with_location =
                    Append(@, located_article(h.articles[h.i], h.loc, value)),
                !.i = @ + 1, !.loc = None])
       ELSE scan_articles([h EXCEPT !.i = @ + 1, !.loc = None])

\* lines 180-194: what process_and_group_articles does with the value
\* geocode_location returned for r.loc, up to the next call of
\* geocode_location or the grouping loop; the history r.geocoded takes the
\* call and its value
after_geocode(r, value) ==
    LET h == [r EXCEPT !.geocoded = Append(@, [i |-> r.i, loc |-> r.loc, value |-> value])]
    IN IF value # None
       THEN scan_articles([h EXCEPT
                !.articles_with_location =
                    Append(@, located_article(h.articles[h.i], h.loc, value)),
                !.i = @ + 1, !.found_locations = {}, !.loc = None])
       ELSE IF h.found_locations = {}
       THEN scan_articles([h EXCEPT !.i = @ + 1, !.loc = None])
       ELSE [h EXCEPT !.loc = None]

\* geocode_location returns `value` to process_and_group_articles
AfterGeocode(value) ==
    /\ run' = after_geocode(run, value)
    /\ pc' = pc_of(run')

\* one activation of geocode_location runs to its return, its recursive
\* call or its exception
GeocodeStep(outcome) ==
    /\ pc = "geocode"
    /\ LET r == geocode_location(GEOCODING_CACHE, frame.location_name, frame.attempt, outcome)
           calls == resolution.calls + (IF r.called THEN 1 ELSE 0)
           slept == resolution.slept + r.slept
           kind == IF r.called THEN outcome.kind ELSE resolution.outcome
           done == [name |-> frame.location_name, key |-> LowerOf[frame.location_name],
                    value |-> r.value, calls |-> calls, slept |-> slept, outcome |-> kind,
                    miss |-> resolution.miss, first_calls |-> resolution.first_calls,
                    raised |-> r.exit = "raise"]
       IN /\ GEOCODING_CACHE' = r.cache
          /\ IF r.exit = "recurse"
             THEN /\ frame' = [frame EXCEPT !.attempt = @ + 1]
                  /\ resolution' = [resolution EXCEPT !.calls = calls, !.slept = slept,
                                                      !.outcome = kind]
                  /\ UNCHANGED <<pc, run, last, completed, lastop>>
             ELSE /\ frame' = None
                  /\ resolution' = None
                  /\ completed' = IF r.exit = "return"
                                  THEN completed \cup {done.key} ELSE completed
                  /\ IF resolution.caller = "direct"
                     THEN /\ last' = done
                          /\ pc' = "idle"
                          /\ lastop' = Op("geocode", frame.location_name, r.value,
                                          FALSE, r.exit = "raise")
                          /\ UNCHANGED run
                     ELSE /\ UNCHANGED last
                          /\ IF r.exit = "return"
                             THEN /\ AfterGeocode(r.value)
                                  /\ UNCHANGED lastop
                             ELSE /\ pc' = "raised"
                                  /\ run' = [run EXCEPT !.raised = TRUE]
                                  /\ UNCHANGED lastop
    /\ UNCHANGED <<boundary_vars, app_vars>>

\* lines 162-176: the local variables of process_and_group_articles when it
\* first calls geocode_location, or when no article needs that
enter_pipeline(articles) ==
    scan_articles(
        [articles |-> articles, i |-> 1, found_locations |-> {}, loc |-> None,
         articles_with_location |-> <<>>, j |-> 1, grouped_by_coords |-> <<>>,
         clusters |-> None, raised |-> FALSE, find_calls |-> <<>>, geocoded |-> <<>>])

\* a caller enters process_and_group_articles(articles); the articles are
\* scanned up to the first call of geocode_location
StartPipeline(articles) ==
    /\ pc = "idle"
    /\ run' = enter_pipeline(articles)
    /\ pc' = pc_of(run')
    /\ lastop' = Op("pipeline", None, None, FALSE, FALSE)
    /\ UNCHANGED <<boundary_vars, geocode_vars, app_vars>>

\* head of the loop of line 177: the set hands out its next element, in no
\* specified order, and geocode_location is entered with it
PickLocation ==
    /\ pc = "loc"
    /\ \E loc \in run.found_locations :
          /\ run' = [run EXCEPT !.found_locations = @ \ {loc}, !.loc = loc]
          /\ frame' = [location_name |-> loc, attempt |-> 1]
          /\ resolution' = [caller |-> "pipeline", calls |-> 0, slept |-> 0,
                            outcome |-> "hit",
                            miss |-> LowerOf[loc] \notin DOMAIN GEOCODING_CACHE,
                            first_calls |-> -1]
    /\ pc' = "geocode"
    /\ UNCHANGED <<boundary_vars, GEOCODING_CACHE, last, completed, lastop, app_vars>>

\* one pass of the loop of line 203; after the last pass the output list is
\* built (lines 230-241)
GroupArticle(order) ==
    /\ pc = "group"
    /\ LET g == group_article(run.grouped_by_coords, run.articles_with_location[run.j],
                              BOUNDARIES_LOADED_SUCCESSFULLY, boundaries_gdf,
                              boundaries_spatial_index, order)
           r == IF g.raised
                THEN [run EXCEPT !.grouped_by_coords = g.grouped_by_coords,
                                 !.find_calls = @ \o g.find_calls,
                                 !.raised = TRUE]
                ELSE finish_grouping(
                       [run EXCEPT !.grouped_by_coords = g.grouped_by_coords,
                                   !.find_calls = @ \o g.find_calls,
                                   !.j = @ + 1])
       IN /\ run' = r
          /\ pc' = pc_of(run')
    /\ UNCHANGED <<boundary_vars, geocode_vars, lastop, app_vars>>

\* process_and_group_articles returns run.clusters to its caller (line 242);
\* get_news_clusters stores the list with the `now` of the request and sends
\* it (lines 77-82)
ReturnClusters ==
    /\ pc = "done"
    /\ pc' = "idle"
    /\ run' = None
    /\ IF request # None
       THEN /\ API_CACHE' = [clustered_news |-> run.clusters, last_updated |-> <<request.now>>]
            /\ response' = Reply(200, run.clusters, 82, request.found)
            /\ request' = None
            /\ UNCHANGED clock
       ELSE UNCHANGED app_vars
    /\ UNCHANGED <<boundary_vars, geocode_vars, lastop>>

\* an exception leaves process_and_group_articles; in get_news_clusters the
\* handler of lines 86-93 takes it
PipelineRaises ==
    /\ pc = "raised"
    /\ pc' = "idle"
    /\ run' = None
    /\ lastop' = Op("pipeline", run.articles, None, FALSE, TRUE)
    /\ IF request # None
       THEN /\ response' = stale_or_error(API_CACHE, 91, 93, request.found)
            /\ request' = None
            /\ UNCHANGED <<API_CACHE, clock>>
       ELSE UNCHANGED app_vars
    /\ UNCHANGED <<boundary_vars, geocode_vars>>

\* time passes between requests
Tick ==
    /\ pc = "idle"
    /\ clock < StartTime + MaxTicks * TickSeconds
    /\ clock' = clock + TickSeconds
    /\ UNCHANGED <<boundary_vars, geocode_vars, pc, run, lastop, API_CACHE, request, response>>

\* a GET /api/news/clusters: get_news_clusters up to its response, or up to
\* the first call of geocode_location inside process_and_group_articles;
\* `outcome` is what scrape_news_sources does if it is called
Request(outcome) ==
    /\ pc = "idle"
    /\ LET now == clock IN
       IF cache_is_fresh(API_CACHE, now)
       THEN /\ response' = Reply(200, API_CACHE.clustered_news, 48, API_CACHE)
            /\ UNCHANGED <<pc, run, request, lastop>>
       ELSE IF outcome.raised
       THEN /\ response' = stale_or_error(API_CACHE, 91, 93, API_CACHE)
            /\ UNCHANGED <<pc, run, request, lastop>>
       ELSE IF outcome.articles = <<>>
       THEN /\ response' = stale_or_error(API_CACHE, 58, 60, API_CACHE)
            /\ UNCHANGED <<pc, run, request, lastop>>
       ELSE /\ run' = enter_pipeline(outcome.articles)
            /\ pc' = pc_of(run')
            /\ request' = [now |-> now, found |-> API_CACHE]
            /\ response' = None
            /\ lastop' = Op("pipeline", None, None, FALSE, FALSE)
    /\ UNCHANGED <<boundary_vars, geocode_vars, API_CACHE, clock>>

Next ==
    \/ \E file \in FileStates : CallLoad(file)
    \/ \E text \in Texts(MaxChunks), known \in SUBSET SINGAPORE_LOCATIONS :
          CallExtract(text, known)
    \/ ExtractStep
    \/ \E c \in QueryPoints, order \in IndexOrders(boundaries_gdf) : CallFind(c[1], c[2], order)
    \/ \E name \in PlaceNames : CallGeocode(name)
    \/ \E outcome \in GeocoderOutcomes : GeocodeStep(outcome)
    \/ \E articles \in ArticleLists \cup RecordLists : StartPipeline(articles)
    \/ PickLocation
    \/ \E order \in IndexOrders(boundaries_gdf) : GroupArticle(order)
    \/ ReturnClusters
    \/ PipelineRaises
    \/ ScrapeStep
    \/ \E sources_config \in SourceConfigs : CallScrape(sources_config)
    \/ Tick
    \/ \E outcome \in ScrapeOutcomes : Request(outcome)

\* every caller at once; the three specifications below each take the actions
\* of one kind of caller, from the same initial states
Spec == Init /\ [][Next]_vars

\* callers that only resolve place names
NextGeocode ==
    \/ \E name \in PlaceNames : CallGeocode(name)
    \/ \E outcome \in GeocoderOutcomes : GeocodeStep(outcome)

SpecGeocode == Init /\ [][NextGeocode]_vars

\* callers that only use the boundary index
NextBoundary ==
    \/ \E file \in FileStates : CallLoad(file)
    \/ \E c \in QueryPoints, order \in IndexOrders(boundaries_gdf) : CallFind(c[1], c[2], order)

SpecBoundary == Init /\ [][NextBoundary]_vars

\* the web application: repeated pipeline runs
NextPipeline ==
    \/ \E articles \in ArticleLists : StartPipeline(articles)
    \/ \E outcome \in GeocoderOutcomes : GeocodeStep(outcome)
    \/ PickLocation
    \/ \E order \in IndexOrders(boundaries_gdf) : GroupArticle(order)
    \/ ReturnClusters

SpecPipeline == Init /\ [][NextPipeline]_vars

\* one call of extract_locations_from_text, in a process without geopandas:
\* the call has been entered with some text and some list of names
InitExtract ==
    /\ GEOCODING_CACHE = <<>>
    /\ GEOPANDAS_AVAILABLE = FALSE
    /\ boundaries_gdf = None
    /\ boundaries_spatial_index = None
    /\ BOUNDARIES_LOADED_SUCCESSFULLY = FALSE
    /\ load_ok_seen = FALSE
    /\ pc = "extract"
    /\ frame = None
    /\ run = None
    /\ resolution = None
    /\ last = None
    /\ completed = {}
    /\ AppInit
    /\ \E text \in Texts(MaxChunks), known \in SUBSET SINGAPORE_LOCATIONS :
          lastop = Op("enter extract", [text |-> text, known_locations |-> known],
                      None, FALSE, FALSE)

NextExtract == ExtractStep

SpecExtract == InitExtract /\ [][NextExtract]_vars

\* one call of scrape_news_sources, in a process without geopandas: the call
\* has been entered with some configuration
InitScrape ==
    /\ GEOCODING_CACHE = <<>>
    /\ GEOPANDAS_AVAILABLE = FALSE
    /\ boundaries_gdf = None
    /\ boundaries_spatial_index = None
    /\ BOUNDARIES_LOADED_SUCCESSFULLY = FALSE
    /\ load_ok_seen = FALSE
    /\ pc = "scrape"
    /\ frame = None
    /\ run = None
    /\ resolution = None
    /\ last = None
    /\ completed = {}
    /\ AppInit
    /\ \E sources_config \in SourceConfigs :
          lastop = Op("enter scrape", sources_config, None, FALSE, FALSE)

NextScrape == ScrapeStep

SpecScrape == InitScrape /\ [][NextScrape]_vars

\* pipeline runs on lists in which records may lack a field
NextBatch ==
    \/ \E articles \in RecordLists : StartPipeline(articles)
    \/ \E outcome \in GeocoderOutcomes : GeocodeStep(outcome)
    \/ PickLocation
    \/ \E order \in IndexOrders(boundaries_gdf) : GroupArticle(order)
    \/ ReturnClusters
    \/ PipelineRaises

SpecBatch == Init /\ [][NextBatch]_vars

\* the web application in a process without geopandas: requests to
\* /api/news/clusters while time passes
InitApp == Init /\ ~GEOPANDAS_AVAILABLE /\ ~lastop.args.exists

NextApp ==
    \/ Tick
    \/ \E outcome \in ScrapeOutcomes : Request(outcome)
    \/ \E outcome \in GeocoderOutcomes : GeocodeStep(outcome)
    \/ PickLocation
    \/ \E order \in IndexOrders(boundaries_gdf) : GroupArticle(order)
    \/ ReturnClusters
    \/ PipelineRaises

SpecApp == InitApp /\ [][NextApp]_vars

\* direct geocode_location calls and pipeline runs in one process, one after
\* the other, without geopandas
NextCalls ==
    \/ \E name \in PlaceNames : CallGeocode(name)
    \/ \E outcome \in GeocoderOutcomes : GeocodeStep(outcome)
    \/ \E articles \in ArticleLists : StartPipeline(articles)
    \/ PickLocation
    \/ \E order \in IndexOrders(boundaries_gdf) : GroupArticle(order)
    \/ ReturnClusters

SpecCalls == InitApp /\ [][NextCalls]_vars

TypeOK ==
    /\ pc \in {"idle", "geocode", "loc", "group", "done", "raised", "extract", "scrape"}
    /\ DOMAIN GEOCODING_CACHE \subseteq {lower(n) : n \in PlaceNames}
    /\ \A k \in DOMAIN GEOCODING_CACHE : GEOCODING_CACHE[k] \in Coords \cup {None}

\* ------------------------------------------------------------------------
\* Properties of process_and_group_articles
\* ------------------------------------------------------------------------
ArticleKey(a) == coord_key(a.coords[1], a.coords[2])
ClusterKey(c) == coord_key(c.latitude, c.longitude)
Urls(articles) == {articles[n].url : n \in 1..Len(articles)}
NoDuplicateUrl(articles) ==
    \A m, n \in 1..Len(articles) : articles[m].url = articles[n].url => m = n

\* C1: when process_and_group_articles returns, every key "{lat:.5f},{lon:.5f}"
\* of a located article has exactly one output cluster, every cluster has the key
\* of a located article, the cluster of a key holds the url of every located
\* article with that key (so two located articles with the same key are in the
\* same cluster), and its article_count is the number of distinct urls among
\* the located articles with that key.
C1_OneClusterPerKey ==
    pc = "done" =>
        LET located == run.articles_with_location
            clusters == run.clusters
            keys == {ArticleKey(located[n]) : n \in 1..Len(located)}
        IN /\ \A key \in keys :
                Cardinality({i \in 1..Len(clusters) : ClusterKey(clusters[i]) = key}) = 1
           /\ \A i \in 1..Len(clusters) : ClusterKey(clusters[i]) \in keys
           /\ \A i \in 1..Len(clusters) :
                LET same_key == {n \in 1..Len(located) :
                                    ArticleKey(located[n]) = ClusterKey(clusters[i])}
                IN /\ \A n \in same_key : located[n].url \in Urls(clusters[i].articles)
                   /\ clusters[i].article_count =
                          Cardinality({located[n].url : n \in same_key})

\* a run returned with two located articles of different urls whose different
\* coordinates format to the same key, in one cluster of article_count 2
C1_Witness ==
    /\ pc = "done"
    /\ Len(run.articles_with_location) = 2
    /\ run.articles_with_location[1].coords # run.articles_with_location[2].coords
    /\ ArticleKey(run.articles_with_location[1]) = ArticleKey(run.articles_with_location[2])
    /\ run.articles_with_location[1].url # run.articles_with_location[2].url
    /\ Len(run.clusters) = 1
    /\ run.clusters[1].article_count = 2

\* C2: during the grouping loop and in the returned list no cluster holds two
\* entries with the same url, and a pass of the loop for an article whose url
\* is already in the cluster of its key leaves that cluster's articles as
\* they were.
C2_NoDuplicateUrl ==
    /\ [](run # None =>
            /\ \A i \in 1..Len(run.grouped_by_coords) :
                  NoDuplicateUrl(run.grouped_by_coords[i].articles)
            /\ run.clusters # None =>
                  \A i \in 1..Len(run.clusters) : NoDuplicateUrl(run.clusters[i].articles))
    /\ [][(pc = "group" /\ run.j <= Len(run.articles_with_location)) =>
            LET article == run.articles_with_location[run.j]
                k == KeyIndex(run.grouped_by_coords, ArticleKey(article))
            IN (k # 0 /\ article.url \in Urls(run.grouped_by_coords[k].articles)) =>
                  run'.grouped_by_coords[k].articles = run.grouped_by_coords[k].articles]_vars

\* the loop has passed two located articles with one url and one key, and the
\* cluster holds one entry
C2_Witness ==
    /\ pc = "done"
    /\ run.j = 3
    /\ run.articles_with_location[1].url = run.articles_with_location[2].url
    /\ ArticleKey(run.articles_with_location[1]) = ArticleKey(run.articles_with_location[2])
    /\ Len(run.grouped_by_coords) = 1
    /\ Len(run.grouped_by_coords[1].articles) = 1

\* ------------------------------------------------------------------------
\* Properties of geocode_location (direct callers, SpecGeocode)
\* ------------------------------------------------------------------------
\* the activation taken in this step called geolocator.geocode
GeocoderCalled ==
    /\ pc = "geocode"
    /\ (IF pc' = "geocode" THEN resolution'.calls ELSE last'.calls) > resolution.calls

\* what that call of geolocator.geocode did
OutcomeOfStep == IF pc' = "geocode" THEN resolution'.outcome ELSE last'.outcome

\* C3: a call of geocode_location for a name whose lower-cased form is a key of
\* GEOCODING_CACHE returns the cached value without calling the geocoder,
\* without sleeping and without changing the cache; every key of the cache is
\* lower-cased, so names differing only in letter case use one entry.
C3_CacheHit ==
    /\ [](\A k \in DOMAIN GEOCODING_CACHE : k = lower(k))
    /\ [][(pc = "geocode" /\ LowerOf[frame.location_name] \in DOMAIN GEOCODING_CACHE) =>
            /\ pc' = "idle"
            /\ GEOCODING_CACHE' = GEOCODING_CACHE
            /\ ~last'.raised
            /\ last'.value = GEOCODING_CACHE[LowerOf[frame.location_name]]
            /\ last'.calls = 0
            /\ last'.slept = 0]_vars

\* a call with the name in capitals was served coordinates from the entry
\* another spelling of the name created
C3_Witness ==
    /\ last # None
    /\ last.name = <<"T","U","A","S">>
    /\ ~last.miss
    /\ last.calls = 0
    /\ last.value \in Coords
    /\ DOMAIN GEOCODING_CACHE = {<<"t","u","a","s">>}

\* C4: once a top-level call of geocode_location has completed, the lower-cased
\* name is a key of GEOCODING_CACHE, the entry holds the value the last call
\* returned, and no later activation for that name calls the geocoder.
C4_AlwaysCached ==
    /\ [](/\ completed \subseteq DOMAIN GEOCODING_CACHE
          /\ last # None =>
                /\ last.key \in DOMAIN GEOCODING_CACHE
                /\ GEOCODING_CACHE[last.key] = last.value)
    /\ [][GeocoderCalled => LowerOf[frame.location_name] \notin completed]_vars

\* the geocoder found nothing, the call returned None after one lookup and
\* None is the cache entry
C4_Witness ==
    /\ last # None
    /\ last.outcome = "none"
    /\ last.calls = 1
    /\ last.value = None
    /\ last.key \in completed
    /\ GEOCODING_CACHE[last.key] = None

\* C5 as stated: a call that directly follows a call for the same name which
\* began with a cache miss brings the number of geocoder lookups of the two
\* calls to at most one, and returns what the first returned.
C5_AtMostOneLookup ==
    [][(pc = "geocode" /\ pc' = "idle" /\ last # None /\ last.miss
          /\ last.name = frame.location_name) =>
            /\ last.calls + last'.calls <= 1
            /\ last'.value = last.value]_vars

\* C5 amended: the second of the two calls issues no geocoder lookup, the two
\* calls together issue at most max_attempts lookups (the retries of the first
\* call after timeouts), and both return the same value.
C5_SecondCallNoLookup ==
    [][(pc = "geocode" /\ pc' = "idle" /\ last # None /\ last.miss
          /\ last.name = frame.location_name) =>
            /\ last'.calls = 0
            /\ last.calls + last'.calls <= max_attempts
            /\ last'.value = last.value]_vars

\* the first call needed three lookups, the second call for the same name none
C5_Witness ==
    /\ last # None
    /\ last.first_calls = 3
    /\ last.calls = 0
    /\ ~last.miss

\* C6: a resolution calls the geocoder at most max_attempts times; a timeout on
\* attempt k < max_attempts is followed by attempt k + 1; a resolution whose
\* every geocoder call timed out made max_attempts calls, returned None and
\* left None in the cache.  The resolution terminates: a running activation
\* can always take its step, and a step either ends the resolution or moves
\* to the next attempt, of which there are at most max_attempts.
C6_RetryCeiling ==
    /\ [](/\ pc = "geocode" =>
                /\ resolution.calls < max_attempts
                /\ frame.attempt = resolution.calls + 1
                /\ frame.attempt <= max_attempts
                /\ ENABLED (\E outcome \in GeocoderOutcomes : GeocodeStep(outcome))
          /\ (last # None /\ last.outcome = "timeout") =>
                /\ last.calls = max_attempts
                /\ last.value = None
                /\ ~last.raised
                /\ last.key \in DOMAIN GEOCODING_CACHE
                /\ GEOCODING_CACHE[last.key] = None)
    /\ [][(GeocoderCalled /\ OutcomeOfStep = "timeout" /\ frame.attempt < max_attempts) =>
            /\ pc' = "geocode"
            /\ frame'.location_name = frame.location_name
            /\ frame'.attempt = frame.attempt + 1
            /\ LowerOf[frame.location_name] \notin DOMAIN GEOCODING_CACHE']_vars
    /\ [][(pc = "geocode" /\ pc' = "geocode") => frame'.attempt = frame.attempt + 1]_vars

\* three timeouts in one resolution
C6_Witness ==
    /\ last # None
    /\ last.outcome = "timeout"
    /\ last.calls = 3
    /\ last.slept = 9
    /\ last.value = None

\* C7: a geocoder call that ends in a service error, another exception or no
\* result ends the resolution at once with None, on whichever attempt.
C7_NoRetryOnError ==
    [][(GeocoderCalled /\ OutcomeOfStep \in {"service_error", "exception", "none"}) =>
          /\ pc' = "idle"
          /\ last'.value = None
          /\ last'.calls = resolution.calls + 1]_vars

\* a service error on the third attempt, after two timeouts
C7_Witness ==
    /\ last # None
    /\ last.outcome = "service_error"
    /\ last.calls = 3
    /\ last.value = None

\* C8: every completed call of geocode_location returned a coordinate pair or
\* None; none let an exception out.
C8_NeverRaises ==
    /\ last # None => (~last.raised /\ last.value \in Coords \cup {None})
    /\ lastop.op \in {"geocode", "pipeline"} => ~lastop.raised

\* the geocoder raised an unexpected exception and the call returned None
C8_Witness ==
    /\ last # None
    /\ last.outcome = "exception"
    /\ last.value = None
    /\ ~last.raised

\* ------------------------------------------------------------------------
\* Properties of the boundary index (SpecBoundary)
\* ------------------------------------------------------------------------
\* C9: when the load at import failed, find_constituency_for_point returns
\* None for every point, whatever later load calls did.
C9_DisabledForGood ==
    ~BOUNDARIES_LOADED_SUCCESSFULLY =>
        /\ \A p \in QueryPoints, order \in IndexOrders(boundaries_gdf) :
              find_constituency_for_point(p[1], p[2], BOUNDARIES_LOADED_SUCCESSFULLY,
                  boundaries_gdf, boundaries_spatial_index, order) = None
        /\ lastop.op = "find" => (lastop.ret = None /\ ~lastop.raised)

\* the import load failed, a later load succeeded, and a query for a point
\* inside a loaded polygon returned None
C9_Witness ==
    /\ ~BOUNDARIES_LOADED_SUCCESSFULLY
    /\ boundaries_gdf # None
    /\ lastop.op = "find"
    /\ \E i \in 1..Len(boundaries_gdf.rows) :
          contains(boundaries_gdf.rows[i].geometry, Point(lastop.args[2], lastop.args[1]))
    /\ lastop.ret = None

\* C10: after a load_electoral_boundaries call has returned True, every call
\* returns True, does not read the boundary file and leaves boundaries_gdf and
\* boundaries_spatial_index as they are.
C10_LoadIdempotent ==
    [][(load_ok_seen /\ pc = "idle" /\ pc' = "idle" /\ lastop'.op = "load") =>
          /\ lastop'.ret = TRUE
          /\ ~lastop'.read
          /\ boundaries_gdf' = boundaries_gdf
          /\ boundaries_spatial_index' = boundaries_spatial_index]_vars

\* a load call after a successful one returned True without reading, although
\* the boundary file was gone
C10_Witness ==
    /\ load_ok_seen
    /\ lastop.op = "load"
    /\ ~lastop.args.exists
    /\ lastop.ret = TRUE
    /\ ~lastop.read
    /\ boundaries_gdf # None

\* C11: with the boundaries loaded, a call find_constituency_for_point(lat, lon)
\* returns the Name of the row that comes first, in the order the spatial index
\* reports its entries, among the rows whose bounding box holds the point
\* (lon, lat) and whose polygon contains it; it returns None when no bounding
\* box holds the point or no such polygon contains it; so the result is not
\* None exactly when some loaded polygon contains the point (lon, lat).  (A
\* polygon lies within its bounding box, so containment is only worked out
\* for the rows whose box holds the point.)
C11_FirstContaining ==
    (lastop.op = "find" /\ BOUNDARIES_LOADED_SUCCESSFULLY) =>
        LET x == lastop.args[2]
            y == lastop.args[1]
            order == lastop.args[3]
            rows == boundaries_gdf.rows
            in_box(i) == LET b == bounds(rows[i].geometry)
                         IN b[1] <= x /\ x <= b[3] /\ b[2] <= y /\ y <= b[4]
            hit(k) == in_box(order[k]) /\ contains(rows[order[k]].geometry, <<x, y>>)
        IN /\ boundaries_gdf # None
           /\ ~lastop.raised
           /\ \A k \in 1..Len(order) :
                 (hit(k) /\ \A m \in 1..(k - 1) : ~hit(m)) => lastop.ret = rows[order[k]].Name
           /\ (\A k \in 1..Len(order) : ~hit(k)) => lastop.ret = None
           /\ (lastop.ret # None) <=>
                 \E i \in 1..Len(rows) : in_box(i) /\ contains(rows[i].geometry, <<x, y>>)

\* two loaded polygons contain the point, the index reported the second row
\* first, and the call returned the name of the second row
C11_Witness ==
    /\ lastop.op = "find"
    /\ BOUNDARIES_LOADED_SUCCESSFULLY
    /\ Len(boundaries_gdf.rows) = 2
    /\ \A i \in 1..2 :
          contains(boundaries_gdf.rows[i].geometry, <<lastop.args[2], lastop.args[1]>>)
    /\ lastop.args[3] = <<2, 1>>
    /\ lastop.ret = Pioneer

\* ------------------------------------------------------------------------
\* Further properties of process_and_group_articles (SpecPipeline)
\* ------------------------------------------------------------------------
FindKey(n) == coord_key(run.find_calls[n][1], run.find_calls[n][2])

\* C12: in a run of process_and_group_articles the calls of
\* find_constituency_for_point so far are one per coordinate key among the
\* located articles grouped so far, the n-th of them for the n-th cluster; a
\* pass of the grouping loop calls it exactly when it creates a cluster, and
\* leaves the constituency of every existing cluster as it was; the output
\* list carries these constituencies.
C12_ConstituencyOnce ==
    /\ [](run # None =>
            /\ Len(run.find_calls) = Len(run.grouped_by_coords)
            /\ \A n \in 1..Len(run.find_calls) : FindKey(n) = run.grouped_by_coords[n].key
            /\ \A m, n \in 1..Len(run.find_calls) : FindKey(m) = FindKey(n) => m = n
            /\ {FindKey(n) : n \in 1..Len(run.find_calls)} =
                  {ArticleKey(run.articles_with_location[n]) : n \in 1..(run.j - 1)}
            /\ pc = "done" =>
                  \A i \in 1..Len(run.clusters) :
                      run.clusters[i].constituency = run.grouped_by_coords[i].constituency)
    /\ [][pc = "group" =>
            /\ \A i \in 1..Len(run.grouped_by_coords) :
                  run'.grouped_by_coords[i].constituency = run.grouped_by_coords[i].constituency
            /\ Len(run'.find_calls) - Len(run.find_calls) =
                  Len(run'.grouped_by_coords) - Len(run.grouped_by_coords)]_vars

\* a cluster created for a point inside the only loaded polygon took a second
\* article whose point has the same key and lies outside that polygon; there
\* was one lookup and the cluster kept the polygon's name
C12_Witness ==
    /\ pc = "done"
    /\ Len(run.articles_with_location) = 2
    /\ run.articles_with_location[1].coords = <<1304800, 103831800>>
    /\ run.articles_with_location[2].coords = <<1304804, 103831800>>
    /\ BOUNDARIES_LOADED_SUCCESSFULLY
    /\ Len(boundaries_gdf.rows) = 1
    /\ Len(run.find_calls) = 1
    /\ Len(run.clusters) = 1
    /\ run.clusters[1].constituency = WestCoast
    /\ run.clusters[1].article_count = 2

\* the geocode_location calls of the run that returned coordinates
Resolved == SelectSeq(run.geocoded, LAMBDA g : g.value # None)

\* C13: in a run of process_and_group_articles every name passed to
\* geocode_location for an article is one of the names matched in that
\* article, no name is passed twice for one article, the articles are served
\* in input order, and after a call that returned coordinates no further name
\* of that article is passed; the located articles are, in order, the
\* articles of the calls that returned coordinates, each with the name of
\* that call as location_name and its value as coords.  The value recorded
\* for a call is the value geocode_location returned (the cache entry it left
\* under the lower-cased name).
C13_FirstResolvedWins ==
    /\ [](run # None =>
            LET g == run.geocoded
                located == run.articles_with_location
            IN /\ \A n \in 1..Len(g) :
                     /\ g[n].loc \in extract_locations_from_text(
                                        text_to_scan(run.articles[g[n].i]), SINGAPORE_LOCATIONS)
                     /\ \A m \in 1..Len(g) :
                           (g[m].i = g[n].i /\ g[m].loc = g[n].loc) => m = n
                     /\ n < Len(g) => g[n].i <= g[n + 1].i
                     /\ g[n].value # None => \A m \in (n + 1)..Len(g) : g[m].i > g[n].i
               /\ pc = "loc" => \A n \in 1..Len(g) : g[n].i = run.i => g[n].value = None
               /\ Len(located) = Len(Resolved)
               /\ \A k \in 1..Len(located) :
                     /\ located[k].location_name = Resolved[k].loc
                     /\ located[k].coords = Resolved[k].value
                     /\ located[k].url = run.articles[Resolved[k].i].url
                     /\ located[k].title = run.articles[Resolved[k].i].title)
    /\ [][(pc = "geocode" /\ resolution.caller = "pipeline" /\ pc' # "geocode" /\ run' # None) =>
            /\ Len(run'.geocoded) = Len(run.geocoded) + 1
            /\ run'.geocoded[Len(run'.geocoded)] =
                  [i |-> run.i, loc |-> frame.location_name,
                   value |-> GEOCODING_CACHE'[LowerOf[frame.location_name]]]]_vars

\* two names matched in the first article, the first one passed to
\* geocode_location returned coordinates, and the other was never passed on
C13_Witness ==
    /\ pc = "done"
    /\ Len(run.articles) = 1
    /\ Cardinality(FoundLocations[run.articles[1]]) = 2
    /\ Len(run.geocoded) = 1
    /\ run.geocoded[1].value # None
    /\ Len(run.articles_with_location) = 1
    /\ run.articles_with_location[1].location_name = run.geocoded[1].loc
    /\ Cardinality(DOMAIN GEOCODING_CACHE) = 1

\* some geocode_location call for the n-th input article returned coordinates
ResolvedAt(n) ==
    \E k \in 1..Len(run.geocoded) : run.geocoded[k].i = n /\ run.geocoded[k].value # None

\* the urls in the output list
ClusterUrls == UNION {Urls(run.clusters[i].articles) : i \in 1..Len(run.clusters)}

\* C14 as stated: in the returned list the url of an input article is in some
\* cluster exactly when a name matched in that article resolved to coordinates.
C14_UrlIffResolved ==
    pc = "done" =>
        \A n \in 1..Len(run.articles) : (run.articles[n].url \in ClusterUrls) <=> ResolvedAt(n)

\* C14 amended: in the returned list a url is in some cluster exactly when a
\* name matched in some input article with that url resolved to coordinates;
\* every cluster entry is the title, url, summary and source of an input
\* article for which a name resolved, so an article without a match, or whose
\* every matched name resolved to None, adds no entry; no error is raised.
C14_UrlIffSomeRecordResolved ==
    /\ pc = "done" =>
          /\ \A n \in 1..Len(run.articles) :
                ResolvedAt(n) => run.articles[n].url \in ClusterUrls
          /\ \A u \in ClusterUrls :
                \E n \in 1..Len(run.articles) : run.articles[n].url = u /\ ResolvedAt(n)
          /\ \A i \in 1..Len(run.clusters) : \A m \in 1..Len(run.clusters[i].articles) :
                \E n \in 1..Len(run.articles) :
                    /\ ResolvedAt(n)
                    /\ run.clusters[i].articles[m] =
                          [title |-> run.articles[n].title, url |-> run.articles[n].url,
                           summary |-> run.articles[n].summary,
                           source |-> run.articles[n].source]
          /\ lastop.op = "pipeline"
    /\ pc # "raised"
    /\ lastop.op = "pipeline" => ~lastop.raised

\* two input articles share a url; a name of the first resolved, the only name
\* of the second resolved to None; the url is in the output, once, with the
\* title of the first
C14_Witness ==
    /\ pc = "done"
    /\ Len(run.articles) = 2
    /\ run.articles[1].url = run.articles[2].url
    /\ run.articles[1].title # run.articles[2].title
    /\ ResolvedAt(1)
    /\ ~ResolvedAt(2)
    /\ \E k \in 1..Len(run.geocoded) : run.geocoded[k].i = 2 /\ run.geocoded[k].value = None
    /\ Len(run.clusters) = 1
    /\ Len(run.clusters[1].articles) = 1
    /\ run.clusters[1].articles[1].title = run.articles[1].title

\* ------------------------------------------------------------------------
\* Records lacking a field (SpecBatch)
\* ------------------------------------------------------------------------
\* C15: process_and_group_articles never lets an exception out: no run is left
\* by a KeyError, whatever fields the records of the input list lack.
C15_BatchNeverAborts ==
    /\ pc # "raised"
    /\ lastop.op = "pipeline" => ~lastop.raised

\* ------------------------------------------------------------------------
\* Properties of extract_locations_from_text (SpecExtract)
\* ------------------------------------------------------------------------
\* C16: extract_locations_from_text(text, known_locations) returns exactly the
\* entries of known_locations that occur in the text, letter case aside, at a
\* place where the character before and the character after the occurrence
\* are not word characters or do not exist; for an entry made of word
\* characters that is: the entry is, letter case aside, one of the maximal
\* runs of word characters of the text.  The returned entries are spelled as
\* in known_locations; the result is empty when no entry occurs so.
C16_WholeWordMatches ==
    lastop.op = "extract" =>
        LET text == lastop.args.text
            known == lastop.args.known_locations
            occurs_at(loc, i) ==
                /\ i + Len(loc) - 1 <= Len(text)
                /\ lower(SubSeq(text, i, i + Len(loc) - 1)) = lower(loc)
                /\ i > 1 => ~IsWordChar(text[i - 1])
                /\ i + Len(loc) <= Len(text) => ~IsWordChar(text[i + Len(loc)])
            is_word(i, j) ==
                /\ i <= j
                /\ \A k \in i..j : IsWordChar(text[k])
                /\ i > 1 => ~IsWordChar(text[i - 1])
                /\ j < Len(text) => ~IsWordChar(text[j + 1])
        IN /\ lastop.ret \subseteq known
           /\ \A loc \in known :
                 /\ loc \in lastop.ret <=> \E i \in 1..Len(text) : occurs_at(loc, i)
                 /\ loc \in lastop.ret <=>
                       \E i, j \in 1..Len(text) :
                           is_word(i, j) /\ lower(SubSeq(text, i, j)) = lower(loc)

\* the text "x tUAS" scanned for Tuas and Dover gave Tuas
C16_Witness ==
    /\ lastop.op = "extract"
    /\ lastop.args.text = <<"x", " ", "t", "U", "A", "S">>
    /\ lastop.args.known_locations = {Tuas, Dover}
    /\ lastop.ret = {Tuas}

\* ------------------------------------------------------------------------
\* Properties of scrape_news_sources (SpecScrape)
\* ------------------------------------------------------------------------
\* the type of a dict entry: the lower-cased 'type', html without one
TypeOfEntry(source) ==
    IF "type" \in DOMAIN source.items THEN lower(source.items.type) ELSE html

\* the entry is one that is to be skipped
ToSkip(source) ==
    \/ source.py_type # "dict"
    \/ "name" \notin DOMAIN source.items
    \/ "url" \notin DOMAIN source.items
    \/ TypeOfEntry(source) = html /\ "selectors" \notin DOMAIN source.items
    \/ TypeOfEntry(source) \notin {rss, html}

\* the articles parsed from an entry that is not skipped
ParsedFrom(e) ==
    IF TypeOfEntry(e.source) = html /\ ~e.delivery.fetched
    THEN <<>>
    ELSE [n \in 1..Len(e.delivery.found) |->
             [title |-> e.delivery.found[n].title, url |-> e.delivery.found[n].url,
              summary |-> e.delivery.found[n].summary, source |-> e.source.items.name]]

\* the articles of the first k entries, skipped entries left out
RECURSIVE Concatenation(_, _)
Concatenation(sources_config, k) ==
    IF k = 0 THEN <<>>
    ELSE Concatenation(sources_config, k - 1) \o
         (IF ToSkip(sources_config[k].source) THEN <<>> ELSE ParsedFrom(sources_config[k]))

C18_StaleOrError ==
    (response # None /\ response.line \in {58, 60, 91, 93}) =>
        /\ API_CACHE = response.found
        /\ IF response.found.last_updated # None
           THEN response.status = 200 /\ response.body = response.found.clustered_news
           ELSE response.status = 500

\* ------------------------------------------------------------------------
\* Properties of GEOCODING_CACHE over calls and runs (SpecCalls)
\* ------------------------------------------------------------------------
\* C19: no step of a geocode_location call or of a pipeline run removes a key
\* from GEOCODING_CACHE or changes the value stored under a key.
C19_CacheMonotone ==
    [][\A k \in DOMAIN GEOCODING_CACHE :
          /\ k \in DOMAIN GEOCODING_CACHE'
          /\ GEOCODING_CACHE'[k] = GEOCODING_CACHE[k]]_vars

\* the cache holds None for one name and coordinates for another; a pipeline
\* run has just been served both from the cache, after a direct call that was
\* a hit as well
C19_Witness ==
    /\ pc = "done"
    /\ Len(run.geocoded) = 2
    /\ run.geocoded[1].value = None
    /\ run.geocoded[2].value \in Coords
    /\ last # None
    /\ ~last.miss
    /\ DOMAIN GEOCODING_CACHE = {LowerOf[Tuas], LowerOf[Dover]}
    /\ \E k \in DOMAIN GEOCODING_CACHE : GEOCODING_CACHE[k] = None
    /\ \E k \in DOMAIN GEOCODING_CACHE : GEOCODING_CACHE[k] \in Coords

\* ------------------------------------------------------------------------
\* The position and name of a cluster (SpecPipeline)
\* ------------------------------------------------------------------------
\* the first located article, in input order, with the given key
FirstWithKey(key) ==
    LET located == run.articles_with_location
        n == CHOOSE n \in 1..Len(located) :
                 /\ ArticleKey(located[n]) = key
                 /\ \A m \in 1..(n - 1) : ArticleKey(located[m]) # key
    IN located[n]

\* C20: during the grouping loop and in the returned list, the latitude,
\* longitude and location_name of the cluster of a key are the coords, not
\* rounded, and the location_name of the first located article with that key;
\* no pass of the loop changes these three fields of a cluster that exists.
C20_FirstArticleSetsCluster ==
    /\ [](pc \in {"group", "done"} =>
            \A i \in 1..Len(run.grouped_by_coords) :
                LET data == run.grouped_by_coords[i]
                    first == FirstWithKey(data.key)
                IN /\ data.latitude = first.coords[1]
                   /\ data.longitude = first.coords[2]
                   /\ data.location_name = first.location_name)
    /\ [](pc = "done" =>
            /\ Len(run.clusters) = Len(run.grouped_by_coords)
            /\ \A i \in 1..Len(run.clusters) :
                  /\ run.clusters[i].latitude = run.grouped_by_coords[i].latitude
                  /\ run.clusters[i].longitude = run.grouped_by_coords[i].longitude
                  /\ run.clusters[i].location_name = run.grouped_by_coords[i].location_name)
    /\ [][pc = "group" =>
            \A i \in 1..Len(run.grouped_by_coords) :
                /\ run'.grouped_by_coords[i].latitude = run.grouped_by_coords[i].latitude
                /\ run'.grouped_by_coords[i].longitude = run.grouped_by_coords[i].longitude
                /\ run'.grouped_by_coords[i].location_name =
                       run.grouped_by_coords[i].location_name]_vars

\* two located articles with different names and different coords that round
\* to one key; the one cluster has the coords and the name of the first
C20_Witness ==
    /\ pc = "done"
    /\ Len(run.articles_with_location) = 2
    /\ run.articles_with_location[1].coords = <<1304804, 103831800>>
    /\ run.articles_with_location[2].coords = <<1304800, 103831800>>
    /\ run.articles_with_location[1].location_name = Dover
    /\ run.articles_with_location[2].location_name = Tuas
    /\ Len(run.clusters) = 1
    /\ run.clusters[1].latitude = 1304804
    /\ run.clusters[1].location_name = Dover
    /\ run.clusters[1].article_count = 2

\* ------------------------------------------------------------------------
\* The freshness window of API_CACHE (SpecApp)
\* ------------------------------------------------------------------------
\* C21: a request that arrives less than CACHE_TTL_SECONDS after the timestamp
\* of the last completed refresh, whatever list that refresh stored, is
\* answered at line 48 from API_CACHE: scrape_news_sources is not called and
\* process_and_group_articles is not entered.
C21_FreshCacheServes ==
    [][(/\ pc = "idle"
        /\ clock' = clock
        /\ API_CACHE.last_updated # None
        /\ clock - API_CACHE.last_updated[1] < CACHE_TTL_SECONDS) =>
            /\ response' = Reply(200, API_CACHE.clustered_news, 48, API_CACHE)
            /\ pc' = "idle"
            /\ request' = None
            /\ run' = run]_vars

\* ------------------------------------------------------------------------
\* A url across clusters (SpecPipeline)
\* ------------------------------------------------------------------------
\* C22: in the list process_and_group_articles returns, no url is among the
\* articles of two different clusters, whatever the input list (two records
\* may share a url) and whatever the order in which matched names are tried.
C22_UrlInOneCluster ==
    pc = "done" =>
        \A i, j \in 1..Len(run.clusters) :
            i # j => Urls(run.clusters[i].articles) \cap Urls(run.clusters[j].articles) = {}

====
